---- MODULE Spec2Model ----
(***************************************************************************)
(* Model of the rule-based query optimizer: the SQL parser                 *)
(* (sql_parser.py), the selectivity scorer (selectivity_scorer.py) and the *)
(* query optimizer (query_optimizer.py).                                   *)
(*                                                                         *)
(* Text is a sequence of one-character strings, so that the regular        *)
(* expressions of the parser are evaluated character by character.         *)
(* The alphabet is: letters, digits, "_", " ", "*", ".", the operator      *)
(* characters = < > ! and the two quote characters.  Floating-point value  *)
(* literals are decimal-point literals without sign and exponent.          *)
(***************************************************************************)
EXTENDS Integers, Sequences, FiniteSets, TLC

(***************************************************************************)
(* Characters and character classes of the `re` module                     *)
(***************************************************************************)
UpperLetters ==
  <<"A","B","C","D","E","F","G","H","I","J","K","L","M",
    "N","O","P","Q","R","S","T","U","V","W","X","Y","Z">>

LowerLetters ==
  <<"a","b","c","d","e","f","g","h","i","j","k","l","m",
    "n","o","p","q","r","s","t","u","v","w","x","y","z">>

Digits == {"0","1","2","3","4","5","6","7","8","9"}

Range(f) == {f[i] : i \in DOMAIN f}

\* str.lower() on one character; also the case folding of re.IGNORECASE
LowerChar(c) ==
  IF \E i \in 1..26 : UpperLetters[i] = c
  THEN LowerLetters[CHOOSE i \in 1..26 : UpperLetters[i] = c]
  ELSE c

\* str.lower()
PyLower(s) == [i \in 1..Len(s) |-> LowerChar(s[i])]

\* \s
IsSpace(c) == c = " "

\* \w
IsWord(c) == c \in Range(UpperLetters) \cup Range(LowerLetters) \cup Digits \cup {"_"}

\* [=<>!]
IsOpChar(c) == c \in {"=", "<", ">", "!"}

\* ['"]
IsQuote(c) == c \in {"'", "\""}

\* [^'"\s]
IsValueChar(c) == ~IsQuote(c) /\ ~IsSpace(c)

\* The characters of the texts
Alphabet ==
  Range(UpperLetters) \cup Range(LowerLetters) \cup Digits
    \cup {"_", " ", "*", ".", "=", "<", ">", "!", "'", "\""}

SpaceChars == {c \in Alphabet : IsSpace(c)}

WordChars == {c \in Alphabet : IsWord(c)}

OpChars == {c \in Alphabet : IsOpChar(c)}

ValueChars == {c \in Alphabet : IsValueChar(c)}

\* End (exclusive) of the greedy run of characters of a class starting at i
RunEnd(s, i, class) ==
  CHOOSE j \in i..(Len(s) + 1) :
    /\ \A k \in i..(j - 1) : s[k] \in class
    /\ (j = Len(s) + 1 \/ s[j] \notin class)

\* A keyword matched at position i under re.IGNORECASE
MatchLit(s, i, lit) ==
  /\ i + Len(lit) - 1 <= Len(s)
  /\ \A k \in 1..Len(lit) : LowerChar(s[i + k - 1]) = LowerChar(lit[k])

\* str.strip()
Strip(s) ==
  IF \A k \in 1..Len(s) : IsSpace(s[k]) THEN <<>>
  ELSE LET a == CHOOSE i \in 1..Len(s) :
                  ~IsSpace(s[i]) /\ \A k \in 1..(i - 1) : IsSpace(s[k])
           b == CHOOSE j \in 1..Len(s) :
                  ~IsSpace(s[j]) /\ \A k \in (j + 1)..Len(s) : IsSpace(s[k])
       IN  SubSeq(s, a, b)

KwSelect == <<"S","E","L","E","C","T">>
KwFrom == <<"F","R","O","M">>
KwWhere == <<"W","H","E","R","E">>
KwAnd == <<"A","N","D">>

(***************************************************************************)
(* SQLParser                                                               *)
(***************************************************************************)

\* select_pattern  SELECT\s+\*\s+FROM\s+(\w+)  matched at position i:
\* group(1), or <<>> when the pattern does not match there
SelectTableAt(s, i) ==
  IF ~MatchLit(s, i, KwSelect) THEN <<>>
  ELSE LET a == i + 6
           b == RunEnd(s, a, SpaceChars)
       IN  IF b = a \/ b > Len(s) \/ s[b] # "*" THEN <<>>
           ELSE LET c == RunEnd(s, b + 1, SpaceChars)
                IN  IF c = b + 1 \/ ~MatchLit(s, c, KwFrom) THEN <<>>
                    ELSE LET d == c + 4
                             e == RunEnd(s, d, SpaceChars)
                             f == RunEnd(s, e, WordChars)
                         IN  IF e = d \/ f = e THEN <<>>
                             ELSE SubSeq(s, e, f - 1)

\* re.search(select_pattern, query, re.IGNORECASE): group(1) of the leftmost
\* match, or <<>> when there is none
SelectSearch(s) ==
  IF \A i \in 1..Len(s) : SelectTableAt(s, i) = <<>> THEN <<>>
  ELSE LET i == CHOOSE k \in 1..Len(s) :
                  /\ SelectTableAt(s, k) # <<>>
                  /\ \A m \in 1..(k - 1) : SelectTableAt(s, m) = <<>>
       IN  SelectTableAt(s, i)

\* where_pattern  WHERE\s+(.+)  matched at position i: the start of group(1),
\* or 0 when the pattern does not match there.  \s+ is greedy and gives back
\* one character when nothing is left for .+
WhereGroupStartAt(s, i) ==
  IF ~MatchLit(s, i, KwWhere) THEN 0
  ELSE LET a == i + 5
           b == RunEnd(s, a, SpaceChars)
       IN  IF b = a THEN 0
           ELSE IF b <= Len(s) THEN b
           ELSE IF b - a >= 2 THEN b - 1
           ELSE 0

\* re.search(where_pattern, query, re.IGNORECASE): group(1) of the leftmost
\* match, or <<>> when there is none (group(1) is never empty)
WhereSearch(s) ==
  IF \A i \in 1..Len(s) : WhereGroupStartAt(s, i) = 0 THEN <<>>
  ELSE LET i == CHOOSE k \in 1..Len(s) :
                  /\ WhereGroupStartAt(s, k) # 0
                  /\ \A m \in 1..(k - 1) : WhereGroupStartAt(s, m) = 0
       IN  SubSeq(s, WhereGroupStartAt(s, i), Len(s))

\* \s+AND\s+ matched at position i: the end (exclusive) of the match, or 0
AndSepEndAt(s, i) ==
  IF i > Len(s) \/ ~IsSpace(s[i]) THEN 0
  ELSE LET b == RunEnd(s, i, SpaceChars)
       IN  IF ~MatchLit(s, b, KwAnd) THEN 0
           ELSE LET e == RunEnd(s, b + 3, SpaceChars)
                IN  IF e = b + 3 THEN 0 ELSE e

RECURSIVE SplitFrom(_, _)
\* re.split(r'\s+AND\s+', where_clause, flags=re.IGNORECASE) from position from
SplitFrom(s, from) ==
  IF \A i \in from..Len(s) : AndSepEndAt(s, i) = 0
  THEN << SubSeq(s, from, Len(s)) >>
  ELSE LET i == CHOOSE k \in from..Len(s) :
                  /\ AndSepEndAt(s, k) # 0
                  /\ \A m \in from..(k - 1) : AndSepEndAt(s, m) = 0
       IN  << SubSeq(s, from, i - 1) >> \o SplitFrom(s, AndSepEndAt(s, i))

SplitAnd(s) == SplitFrom(s, 1)

\* condition_pattern  (\w+)\s*([=<>!]+)\s*(['"]?)([^'"\s]+)\3  with the
\* operator group ending (exclusive) at p: the match or NoMatch.  After the
\* whole operator run \s* is greedy; after a shortened operator the next
\* character is an operator character, so \s* and the quote group are empty.
NoMatch == [matched |-> FALSE, column |-> <<>>, operator |-> <<>>,
            quote |-> <<>>, value |-> <<>>]

ConditionTail(s, w, a, o, p) ==
  LET t == IF p = o THEN RunEnd(s, p, SpaceChars) ELSE p
  IN  IF t <= Len(s) /\ IsQuote(s[t])
      THEN LET v == RunEnd(s, t + 1, ValueChars)
           IN  IF v > t + 1 /\ v <= Len(s) /\ s[v] = s[t]
               THEN [matched |-> TRUE, column |-> SubSeq(s, 1, w - 1),
                     operator |-> SubSeq(s, a, p - 1), quote |-> << s[t] >>,
                     value |-> SubSeq(s, t + 1, v - 1)]
               ELSE NoMatch
      ELSE LET v == RunEnd(s, t, ValueChars)
           IN  IF v > t
               THEN [matched |-> TRUE, column |-> SubSeq(s, 1, w - 1),
                     operator |-> SubSeq(s, a, p - 1), quote |-> <<>>,
                     value |-> SubSeq(s, t, v - 1)]
               ELSE NoMatch

\* re.match(condition_pattern, s): anchored at the start, not at the end; the
\* operator run is tried longest first
MatchCondition(s) ==
  LET w == RunEnd(s, 1, WordChars)
      a == RunEnd(s, w, SpaceChars)
      o == RunEnd(s, a, OpChars)
  IN  IF w = 1 \/ o = a THEN NoMatch
      ELSE IF \A p \in (a + 1)..o : ~ConditionTail(s, w, a, o, p).matched
      THEN NoMatch
      ELSE LET p == CHOOSE q \in (a + 1)..o :
                      /\ ConditionTail(s, w, a, o, q).matched
                      /\ \A r \in (q + 1)..o : ~ConditionTail(s, w, a, o, r).matched
           IN  ConditionTail(s, w, a, o, p)

\* Digits with single underscores between them: what int() and the parts of
\* a float() literal accept
IsDigitRun(s) ==
  /\ Len(s) > 0
  /\ \A k \in 1..Len(s) : s[k] \in Digits \cup {"_"}
  /\ s[1] # "_" /\ s[Len(s)] # "_"
  /\ \A k \in 1..(Len(s) - 1) : ~(s[k] = "_" /\ s[k + 1] = "_")

RECURSIVE DropUnderscores(_)
DropUnderscores(s) ==
  IF s = <<>> THEN <<>>
  ELSE IF Head(s) = "_" THEN DropUnderscores(Tail(s))
  ELSE << Head(s) >> \o DropUnderscores(Tail(s))

RECURSIVE DropLeadingZeros(_)
DropLeadingZeros(s) ==
  IF Len(s) > 1 /\ Head(s) = "0" THEN DropLeadingZeros(Tail(s)) ELSE s

RECURSIVE DropTrailingZeros(_)
DropTrailingZeros(s) ==
  IF Len(s) > 1 /\ s[Len(s)] = "0"
  THEN DropTrailingZeros(SubSeq(s, 1, Len(s) - 1)) ELSE s

HasDot(s) == \E k \in 1..Len(s) : s[k] = "."

\* int(value) succeeds
IntOk(s) == IsDigitRun(s)

\* str(int(value)): the decimal numeral without underscores and leading zeros
IntRepr(s) == DropLeadingZeros(DropUnderscores(s))

\* float(value) succeeds, for a value that contains '.': digits on at least
\* one side of a single decimal point
FloatOk(s) ==
  \E k \in 1..Len(s) :
    /\ s[k] = "."
    /\ LET ip == SubSeq(s, 1, k - 1)
           fp == SubSeq(s, k + 1, Len(s))
       IN  /\ ip = <<>> \/ IsDigitRun(ip)
           /\ fp = <<>> \/ IsDigitRun(fp)
           /\ ip # <<>> \/ fp # <<>>

\* str(float(value)): integer part without leading zeros, fraction without
\* trailing zeros, each at least one digit
FloatRepr(s) ==
  LET k == CHOOSE j \in 1..Len(s) : s[j] = "."
      ip == DropUnderscores(SubSeq(s, 1, k - 1))
      fp == DropUnderscores(SubSeq(s, k + 1, Len(s)))
  IN  DropLeadingZeros(IF ip = <<>> THEN << "0" >> ELSE ip) \o << "." >>
        \o DropTrailingZeros(IF fp = <<>> THEN << "0" >> ELSE fp)

\* The value of a Condition: its Python type and str(value)
StrValue(s) == [kind |-> "str", repr |-> s]
IntValue(s) == [kind |-> "int", repr |-> s]
FloatValue(s) == [kind |-> "float", repr |-> s]

\* The value conversion of _parse_single_condition
ConvertValue(quote, value) ==
  IF quote # <<>> THEN StrValue(value)
  ELSE IF HasDot(value)
       THEN IF FloatOk(value) THEN FloatValue(FloatRepr(value)) ELSE StrValue(value)
       ELSE IF IntOk(value) THEN IntValue(IntRepr(value)) ELSE StrValue(value)

Condition(column, operator, value, original_text) ==
  [column |-> column, operator |-> operator, value |-> value,
   original_text |-> original_text]

\* _parse_single_condition keeping as original_text the column, operator and
\* value written out again instead of the fragment
ParseSingleConditionRendered(condition_str) ==
  LET m == MatchCondition(Strip(condition_str))
      value == ConvertValue(m.quote, m.value)
  IN  IF ~m.matched THEN <<>>
      ELSE << Condition(m.column, m.operator, value,
                        m.column \o <<" ">> \o m.operator \o <<" ">> \o value.repr) >>

\* _parse_single_condition: << condition >>, or << >> for None
ParseSingleCondition(condition_str) ==
  LET m == MatchCondition(Strip(condition_str))
  IN  IF ~m.matched THEN <<>>
      ELSE << Condition(m.column, m.operator, ConvertValue(m.quote, m.value),
                        Strip(condition_str)) >>

RECURSIVE ParsePartsUntilMiss(_)
\* the loop of _parse_conditions, left at the first fragment that is not a
\* condition
ParsePartsUntilMiss(parts) ==
  IF parts = <<>> THEN <<>>
  ELSE LET part == Strip(Head(parts))
           condition == IF part = <<>> THEN <<>> ELSE ParseSingleCondition(part)
       IN  IF condition = <<>> THEN <<>>
           ELSE condition \o ParsePartsUntilMiss(Tail(parts))

RECURSIVE ParseParts(_)
\* the loop of _parse_conditions over condition_parts
ParseParts(parts) ==
  IF parts = <<>> THEN <<>>
  ELSE LET part == Strip(Head(parts))
       IN  (IF part = <<>> THEN <<>> ELSE ParseSingleCondition(part))
             \o ParseParts(Tail(parts))

\* _parse_conditions
ParseConditions(where_clause) == ParseParts(SplitAnd(where_clause))

ParsedQuery(table_name, conditions, original_query) ==
  [table_name |-> table_name, conditions |-> conditions,
   original_query |-> original_query]

\* SQLParser.parse: the ParsedQuery, or the ValueError raised
ParseResult(error, pq) == [error |-> error, query |-> pq]

\* Mutant of Parse: the WHERE clause is looked for before the SELECT pattern
ParseWhereFirst(text) ==
  LET query == Strip(text)
      table_name == SelectSearch(query)
      where_clause == WhereSearch(query)
  IN  IF where_clause = <<>>
      THEN ParseResult("MissingWhere", ParsedQuery(<<>>, <<>>, <<>>))
      ELSE IF table_name = <<>>
      THEN ParseResult("InvalidSelect", ParsedQuery(<<>>, <<>>, <<>>))
      ELSE ParseResult("", ParsedQuery(table_name, ParseConditions(where_clause), query))

Parse(text) ==
  LET query == Strip(text)
      table_name == SelectSearch(query)
      where_clause == WhereSearch(query)
  IN  IF table_name = <<>>
      THEN ParseResult("InvalidSelect", ParsedQuery(<<>>, <<>>, <<>>))
      ELSE IF where_clause = <<>>
      THEN ParseResult("MissingWhere", ParsedQuery(<<>>, <<>>, <<>>))
      ELSE ParseResult("", ParsedQuery(table_name, ParseConditions(where_clause), query))

(***************************************************************************)
(* SelectivityScorer.  The factors 0.1 .. 1.0 are written in tenths.       *)
(***************************************************************************)
\* The SelectivityScorer object of the optimizer: its three lookup tables
VARIABLE scorer

\* selectivity_rules with the bases of equality and of range exchanged
selectivity_rules_range_first ==
  <<
     << <<"=">>, 3 >>,
     << <<"=","=">>, 3 >>,
     << <<">">>, 1 >>,
     << <<">","=">>, 1 >>,
     << <<"<">>, 1 >>,
     << <<"<","=">>, 1 >>,
     << <<"!","=">>, 5 >>,
     << <<"<",">">>, 5 >>,
     << <<"L","I","K","E">>, 7 >>,
     << <<"I","L","I","K","E">>, 7 >>
  >>

selectivity_rules ==
  <<
     << <<"=">>, 1 >>,
     << <<"=","=">>, 1 >>,
     << <<">">>, 3 >>,
     << <<">","=">>, 3 >>,
     << <<"<">>, 3 >>,
     << <<"<","=">>, 3 >>,
     << <<"!","=">>, 5 >>,
     << <<"<",">">>, 5 >>,
     << <<"L","I","K","E">>, 7 >>,
     << <<"I","L","I","K","E">>, 7 >>
  >>

column_modifiers ==
  <<
     << <<"i","d">>, 1 >>,
     << <<"e","m","a","i","l">>, 1 >>,
     << <<"u","s","e","r","n","a","m","e">>, 1 >>,
     << <<"s","s","n">>, 1 >>,
     << <<"p","h","o","n","e">>, 1 >>,
     << <<"c","o","u","n","t","r","y">>, 2 >>,
     << <<"s","t","a","t","e">>, 2 >>,
     << <<"c","i","t","y">>, 2 >>,
     << <<"d","e","p","a","r","t","m","e","n","t">>, 2 >>,
     << <<"c","a","t","e","g","o","r","y">>, 2 >>,
     << <<"g","e","n","d","e","r">>, 4 >>,
     << <<"s","t","a","t","u","s">>, 4 >>,
     << <<"t","y","p","e">>, 4 >>,
     << <<"l","e","v","e","l">>, 4 >>,
     << <<"a","g","e">>, 6 >>,
     << <<"s","a","l","a","r","y">>, 6 >>,
     << <<"s","c","o","r","e">>, 6 >>,
     << <<"r","a","t","i","n","g">>, 6 >>
  >>

value_modifiers ==
  <<
     << <<"U","S">>, 3 >>,
     << <<"U","S","A">>, 3 >>,
     << <<"U","n","i","t","e","d"," ","S","t","a","t","e","s">>, 3 >>,
     << <<"a","c","t","i","v","e">>, 3 >>,
     << <<"e","n","a","b","l","e","d">>, 3 >>,
     << <<"t","r","u","e">>, 3 >>,
     << <<"1">>, 3 >>,
     << <<"1","8">>, 4 >>,
     << <<"2","1">>, 4 >>,
     << <<"2","5">>, 4 >>,
     << <<"3","0">>, 4 >>,
     << <<"3","5">>, 4 >>,
     << <<"4","0">>, 4 >>,
     << <<"5","0">>, 4 >>
  >>

\* The tables of a SelectivityScorer after __init__
SelectivityScorer ==
  [selectivity_rules |-> selectivity_rules,
   column_modifiers |-> column_modifiers,
   value_modifiers |-> value_modifiers]

\* dict.get(key, default)
DictGet(d, key, default) ==
  IF \E i \in 1..Len(d) : d[i][1] = key
  THEN d[CHOOSE i \in 1..Len(d) : d[i][1] = key][2]
  ELSE default

\* str(condition.value)
PyStr(value) == value.repr

\* The rounding of  base_score * column_modifier * value_modifier  in IEEE 754
\* double arithmetic, in units in the last place relative to the double
\* nearest to the exact product: 0.1*c is one ulp high and 0.7*c one ulp low
\* for c in {0.1, 0.2, 0.4}, and 0.5*c*0.4 is one ulp high for the same c.
RoundingUlps(b, c, v) ==
  IF c \in {1, 2, 4}
  THEN IF b = 1 THEN 1
       ELSE IF b = 7 THEN -1
       ELSE IF b = 5 /\ v = 4 THEN 1
       ELSE 0
  ELSE 0

\* final_score: the product in thousandths, times 16, plus the rounding in
\* ulps; two scores compare as the two doubles do
FloatProduct(b, c, v) == (b * c * v) * 16 + RoundingUlps(b, c, v)

\* f"{score:.3f}": the score rounded to thousandths
Format3f(score) == (score + 8) \div 16

\* _generate_reasoning: the parts joined by "; "
GenerateReasoning(condition, base_score, column_modifier, value_modifier) ==
  << [text |-> IF condition.operator \in {<<"=">>, <<"=","=">>}
                 THEN "equality condition (highly selective)"
               ELSE IF condition.operator \in {<<">">>, <<">","=">>, <<"<">>, <<"<","=">>}
                 THEN "range condition (moderately selective)"
               ELSE IF condition.operator \in {<<"!","=">>, <<"<",">">>}
                 THEN "inequality condition (less selective)"
               ELSE "operator (moderate selectivity)",
      arg |-> IF condition.operator \in
                   {<<"=">>, <<"=","=">>, <<">">>, <<">","=">>, <<"<">>,
                    <<"<","=">>, <<"!","=">>, <<"<",">">>}
              THEN <<>> ELSE condition.operator] >>
  \o
  << [text |-> IF column_modifier <= 1 THEN "column has high cardinality"
               ELSE IF column_modifier <= 2 THEN "column has medium cardinality"
               ELSE "column has low cardinality",
      arg |-> condition.column] >>
  \o
  (IF value_modifier < 10
     THEN << [text |-> "value is common (less selective)", arg |-> PyStr(condition.value)] >>
   ELSE IF value_modifier > 10
     THEN << [text |-> "value is uncommon (more selective)", arg |-> PyStr(condition.value)] >>
   ELSE <<>>)

SelectivityScore(condition, score, reasoning) ==
  [condition |-> condition, score |-> score, reasoning |-> reasoning]

\* score_condition with 0 as the modifier of a value that is not in the table
ScoreConditionZeroDefault(condition) ==
  LET base_score == DictGet(scorer.selectivity_rules, condition.operator, 5)
      column_modifier == DictGet(scorer.column_modifiers, PyLower(condition.column), 3)
      value_key == PyLower(PyStr(condition.value))
      value_modifier == DictGet(scorer.value_modifiers, value_key, 0)
      final_score == FloatProduct(base_score, column_modifier, value_modifier)
  IN  SelectivityScore(condition, final_score,
        GenerateReasoning(condition, base_score, column_modifier, value_modifier))

\* score_condition
ScoreCondition(condition) ==
  LET base_score == DictGet(scorer.selectivity_rules, condition.operator, 5)
      column_modifier == DictGet(scorer.column_modifiers, PyLower(condition.column), 3)
      value_key == PyLower(PyStr(condition.value))
      value_modifier == DictGet(scorer.value_modifiers, value_key, 10)
      final_score == FloatProduct(base_score, column_modifier, value_modifier)
  IN  SelectivityScore(condition, final_score,
        GenerateReasoning(condition, base_score, column_modifier, value_modifier))

\* Mutant of InsertByScore: the scored conditions are collected in a mapping
\* keyed by score, so a condition replaces an earlier one of equal score
InsertByScoreKeyed(sorted, x) ==
  LET k == Cardinality({i \in 1..Len(sorted) : sorted[i].score < x.score})
      m == Cardinality({i \in 1..Len(sorted) : sorted[i].score <= x.score})
  IN  SubSeq(sorted, 1, k) \o << x >> \o SubSeq(sorted, m + 1, Len(sorted))

\* Mutant of InsertByScore: the sort is left out
InsertByScoreUnsorted(sorted, x) == Append(sorted, x)

\* Mutant of InsertByScore: x goes in front of the elements of equal score
InsertByScoreUnstable(sorted, x) ==
  LET k == Cardinality({i \in 1..Len(sorted) : sorted[i].score < x.score})
  IN  SubSeq(sorted, 1, k) \o << x >> \o SubSeq(sorted, k + 1, Len(sorted))

\* sorted(scored, key=lambda x: x.score): insertion of x behind every element
\* whose score is not greater (the sort is stable)
InsertByScore(sorted, x) ==
  LET k == Cardinality({i \in 1..Len(sorted) : sorted[i].score <= x.score})
  IN  SubSeq(sorted, 1, k) \o << x >> \o SubSeq(sorted, k + 1, Len(sorted))

RECURSIVE SortedByScore(_)
SortedByScore(scored) ==
  IF scored = <<>> THEN <<>>
  ELSE InsertByScore(SortedByScore(SubSeq(scored, 1, Len(scored) - 1)),
                     scored[Len(scored)])

\* get_optimization_recommendation
GetOptimizationRecommendation(conditions) ==
  IF conditions = <<>>
  THEN [text |-> "No conditions to optimize", entries |-> <<>>]
  ELSE IF Len(conditions) = 1
  THEN [text |-> "Only one condition - no optimization needed", entries |-> <<>>]
  ELSE LET scored_conditions == [i \in 1..Len(conditions) |-> ScoreCondition(conditions[i])]
           sorted_conditions == SortedByScore(scored_conditions)
       IN  [text |-> "Recommended execution order (most selective first):",
            entries |-> [i \in 1..Len(sorted_conditions) |->
                           [number |-> i,
                            original_text |-> sorted_conditions[i].condition.original_text,
                            score |-> Format3f(sorted_conditions[i].score),
                            reasoning |-> sorted_conditions[i].reasoning]]]

(***************************************************************************)
(* QueryOptimizer                                                          *)
(***************************************************************************)

\* _apply_optimization_rules
ApplyOptimizationRules(conditions) ==
  LET scored_conditions == [i \in 1..Len(conditions) |-> ScoreCondition(conditions[i])]
      sorted_scored_conditions == SortedByScore(scored_conditions)
  IN  [i \in 1..Len(sorted_scored_conditions) |-> sorted_scored_conditions[i].condition]

\* Mutant of CreateExecutionPlan: enumerate(conditions) without the start
\* value 1, so the FILTER steps are numbered from 0
CreateExecutionPlanFromZero(conditions) ==
  [i \in 1..Len(conditions) |->
     [step |-> i - 1,
      operation |-> "FILTER",
      condition |-> conditions[i].original_text,
      column |-> conditions[i].column,
      operator |-> conditions[i].operator,
      value |-> conditions[i].value,
      description |-> [text |-> "Apply filter: ", arg |-> conditions[i].original_text]]]
  \o
  << [step |-> Len(conditions) + 1,
      operation |-> "RETURN",
      description |-> [text |-> "Return filtered results", arg |-> <<>>]] >>

\* _create_execution_plan; a formatted description is its fixed text and the
\* text inserted into it
CreateExecutionPlan(conditions) ==
  [i \in 1..Len(conditions) |->
     [step |-> i,
      operation |-> "FILTER",
      condition |-> conditions[i].original_text,
      column |-> conditions[i].column,
      operator |-> conditions[i].operator,
      value |-> conditions[i].value,
      description |-> [text |-> "Apply filter: ", arg |-> conditions[i].original_text]]]
  \o
  << [step |-> Len(conditions) + 1,
      operation |-> "RETURN",
      description |-> [text |-> "Return filtered results", arg |-> <<>>]] >>

\* == of two condition values: numbers compare by value across int and float
ValueEq(v1, v2) ==
  IF v1.kind = v2.kind THEN v1.repr = v2.repr
  ELSE IF v1.kind = "int" /\ v2.kind = "float" THEN v2.repr = v1.repr \o <<".", "0">>
  ELSE IF v1.kind = "float" /\ v2.kind = "int" THEN v1.repr = v2.repr \o <<".", "0">>
  ELSE FALSE

\* Condition.__eq__ generated by @dataclass
ConditionEq(c1, c2) ==
  /\ c1.column = c2.column
  /\ c1.operator = c2.operator
  /\ ValueEq(c1.value, c2.value)
  /\ c1.original_text = c2.original_text

\* == of two lists of conditions
ConditionsEq(l1, l2) ==
  /\ Len(l1) = Len(l2)
  /\ \A i \in 1..Len(l1) : ConditionEq(l1[i], l2[i])

OriginalTexts(conditions) ==
  [i \in 1..Len(conditions) |-> conditions[i].original_text]

\* Mutant of GenerateOptimizationSummary: the first test is < 1 instead of <= 1
GenerateOptimizationSummaryOffByOne(original_conditions, optimized_conditions) ==
  IF Len(original_conditions) < 1
  THEN [text |-> "No optimization needed - single condition or no conditions",
        count |-> 0, original |-> <<>>, optimized |-> <<>>]
  ELSE LET order_changed == ~ConditionsEq(original_conditions, optimized_conditions)
       IN  IF ~order_changed
           THEN [text |-> "No optimization needed - conditions already in optimal order",
                 count |-> 0, original |-> <<>>, optimized |-> <<>>]
           ELSE [text |-> "Query optimization applied:",
                 count |-> Len(original_conditions),
                 original |-> OriginalTexts(original_conditions),
                 optimized |-> OriginalTexts(optimized_conditions)]

\* _generate_optimization_summary: the message, and for the reordering
\* message the count and the two numbered listings
GenerateOptimizationSummary(original_conditions, optimized_conditions) ==
  IF Len(original_conditions) <= 1
  THEN [text |-> "No optimization needed - single condition or no conditions",
        count |-> 0, original |-> <<>>, optimized |-> <<>>]
  ELSE LET order_changed == ~ConditionsEq(original_conditions, optimized_conditions)
       IN  IF ~order_changed
           THEN [text |-> "No optimization needed - conditions already in optimal order",
                 count |-> 0, original |-> <<>>, optimized |-> <<>>]
           ELSE [text |-> "Query optimization applied:",
                 count |-> Len(original_conditions),
                 original |-> OriginalTexts(original_conditions),
                 optimized |-> OriginalTexts(optimized_conditions)]

OptimizedQuery(original_query, optimized_conditions, execution_plan, optimization_summary) ==
  [original_query |-> original_query,
   optimized_conditions |-> optimized_conditions,
   execution_plan |-> execution_plan,
   optimization_summary |-> optimization_summary]

\* _create_unoptimized_query
CreateUnoptimizedQuery(parsed_query) ==
  OptimizedQuery(parsed_query, <<>>,
    << [step |-> 1, operation |-> "SCAN",
        description |-> [text |-> "Scan table ", arg |-> parsed_query.table_name]],
       [step |-> 2, operation |-> "RETURN",
        description |-> [text |-> "Return all results", arg |-> <<>>]] >>,
    [text |-> "No WHERE conditions - full table scan",
     count |-> 0, original |-> <<>>, optimized |-> <<>>])

\* Mutant of OptimizeQuery: the test for an empty condition list is left out
OptimizeQueryNoEmptyCase(parsed_query) ==
  LET optimized_conditions == ApplyOptimizationRules(parsed_query.conditions)
      execution_plan == CreateExecutionPlan(optimized_conditions)
      summary == GenerateOptimizationSummary(parsed_query.conditions,
                                             optimized_conditions)
  IN  OptimizedQuery(parsed_query, optimized_conditions, execution_plan, summary)

\* QueryOptimizer.optimize
OptimizeQuery(parsed_query) ==
  IF parsed_query.conditions = <<>>
  THEN CreateUnoptimizedQuery(parsed_query)
  ELSE LET optimized_conditions == ApplyOptimizationRules(parsed_query.conditions)
           execution_plan == CreateExecutionPlan(optimized_conditions)
           summary == GenerateOptimizationSummary(parsed_query.conditions,
                                                  optimized_conditions)
       IN  OptimizedQuery(parsed_query, optimized_conditions, execution_plan, summary)

\* optimize writing the order it found back into parsed_query.conditions
ArgumentAfterOptimizeInPlace(parsed_query) ==
  [parsed_query EXCEPT !.conditions = ApplyOptimizationRules(@)]

\* The ParsedQuery argument after optimize: optimize reads its fields, builds
\* new lists from parsed_query.conditions and assigns none of its fields
ArgumentAfterOptimize(parsed_query) == parsed_query

\* The number of score_condition calls made by optimize
OptimizeScoreCalls(parsed_query) ==
  IF parsed_query.conditions = <<>> THEN 0 ELSE Len(parsed_query.conditions)

\* QueryOptimizer.explain_optimization
ExplainOptimization(parsed_query) ==
  IF parsed_query.conditions = <<>>
  THEN [text |-> "No WHERE conditions to optimize. Query will perform a full table scan.",
        original_query |-> <<>>,
        analysis |-> <<>>,
        recommendation |-> [text |-> "", entries |-> <<>>]]
  ELSE [text |-> "QUERY OPTIMIZATION EXPLANATION",
        original_query |-> parsed_query.original_query,
        analysis |-> [i \in 1..Len(parsed_query.conditions) |->
                        LET score == ScoreCondition(parsed_query.conditions[i])
                        IN  [number |-> i,
                             original_text |-> parsed_query.conditions[i].original_text,
                             score |-> Format3f(score.score),
                             reasoning |-> score.reasoning]],
        recommendation |-> GetOptimizationRecommendation(parsed_query.conditions)]

\* The number of score_condition calls made by explain_optimization
ExplainScoreCalls(parsed_query) ==
  IF parsed_query.conditions = <<>> THEN 0
  ELSE IF Len(parsed_query.conditions) = 1 THEN 1
  ELSE 2 * Len(parsed_query.conditions)

(***************************************************************************)
(* Inputs                                                                  *)
(***************************************************************************)

\* The largest number of AND-ed fragments in a query text and of conditions
\* in a ParsedQuery built by hand
MaxConds == 3

\* What precedes the table name in a query text
Heads ==
  { <<"S","E","L","E","C","T"," ","*"," ","F","R","O","M"," ">>,
    <<"s","e","l","e","c","t"," ","*"," ","f","r","o","m"," ">>,
    <<"S","E","L","E","C","T"," ","F","R","O","M"," ">>,
    <<>> }

\* Table names
Tables ==
  { <<"u","s","e","r","s">>,
    <<"e","l","s","e","w","h","e","r","e">> }

\* What follows the table name in a query text without conditions
Tails ==
  { <<>>,
    <<" ","W","H","E","R","E">>,
    <<" ","e","l","s","e">> }

\* The WHERE keyword as written
WhereKeywords ==
  { <<" ","W","H","E","R","E"," ">>,
    <<" ","w","h","e","r","e"," ">> }

\* Condition fragments of a WHERE clause
Fragments ==
  { <<"a","g","e"," ",">"," ","2","5">>,
    <<"c","o","u","n","t","r","y"," ","="," ","'","U","S","'">>,
    <<"c","a","t","e","g","o","r","y"," ","="," ","'","t","v","'">>,
    <<"s","t","a","t","u","s"," ","="," ","'","a","c","t","i","v","e","'">>,
    <<"i","d"," ",">"," ","2","5">>,
    <<"n","a","m","e"," ","L","I","K","E"," ","'","a","'">> }

\* Further fragments, used in WHERE clauses of one and two fragments: a quoted
\* value with a space in it, a quoted number followed by further text, and a
\* floating-point value
ExtraFragments ==
  { <<"n","a","m","e"," ","="," ","'","J","o","h","n"," ","S","m","i","t","h","'">>,
    <<"i","d"," ","="," ","'","2","5","'"," ","x">>,
    <<"p","r","i","c","e"," ","<","="," ","0","9",".","5","0">> }

ShortFragments == Fragments \cup ExtraFragments

\* The fragments used in WHERE clauses of more than three fragments
LongFragments ==
  { <<"a","g","e"," ",">"," ","2","5">>,
    <<"c","o","u","n","t","r","y"," ","="," ","'","U","S","'">>,
    <<"i","d"," ",">"," ","2","5">>,
    <<"n","a","m","e"," ","L","I","K","E"," ","'","a","'">> }

AndKeyword == <<" ","A","N","D"," ">>

CanonicalHead == <<"S","E","L","E","C","T"," ","*"," ","F","R","O","M"," ">>

CanonicalTable == <<"u","s","e","r","s">>

CanonicalWhere == <<" ","W","H","E","R","E"," ">>

\* Conditions built with the Condition constructor, as the tests do: also
\* ones the parser cannot produce (a word operator; an int and a float value
\* with the same original text)
DirectConditions ==
  {
    Condition(<<"a","g","e">>, <<">">>, IntValue(<<"2","5">>), <<"a","g","e"," ",">"," ","2","5">>),
    Condition(<<"c","o","u","n","t","r","y">>, <<"=">>, StrValue(<<"U","S">>), <<"c","o","u","n","t","r","y"," ","="," ","'","U","S","'">>),
    Condition(<<"c","a","t","e","g","o","r","y">>, <<"=">>, StrValue(<<"t","v">>), <<"c","a","t","e","g","o","r","y"," ","="," ","'","t","v","'">>),
    Condition(<<"n","a","m","e">>, <<"L","I","K","E">>, StrValue(<<"a">>), <<"n","a","m","e"," ","L","I","K","E"," ","'","a","'">>),
    Condition(<<"f","l","a","g">>, <<"=">>, IntValue(<<"1">>), <<"f","l","a","g"," ","="," ","1">>),
    Condition(<<"f","l","a","g">>, <<"=">>, FloatValue(<<"1",".","0">>), <<"f","l","a","g"," ","="," ","1">>)
  }

\* A further hand-built condition, used in lists of one and two conditions:
\* operator, column and value are all unknown to the scorer
ExtraDirectConditions ==
  {
    Condition(<<"n","a","m","e">>, <<"=",">">>, StrValue(<<"a">>), <<"n","a","m","e"," ","=",">"," ","'","a","'">>)
  }

ShortDirectConditions == DirectConditions \cup ExtraDirectConditions

\* The hand-built conditions used in lists of more than three conditions
LongDirectConditions ==
  { c \in DirectConditions : c.operator # <<"L","I","K","E">> /\ c.value.kind # "float" }

SeqsUpTo(S, lo, hi) == UNION { [1..k -> S] : k \in lo..hi }

RECURSIVE Join(_, _)
\* sep.join(parts)
Join(parts, sep) ==
  IF parts = <<>> THEN <<>>
  ELSE IF Len(parts) = 1 THEN parts[1]
  ELSE parts[1] \o sep \o Join(Tail(parts), sep)

Input(family, head, table, tail, where, frags, conditions) ==
  [family |-> family, head |-> head, table |-> table, tail |-> tail,
   where |-> where, frags |-> frags, conditions |-> conditions]

\* Query texts: every head, table and tail without conditions and with one
\* fragment; the canonical head and table with two fragments of any kind,
\* with three of the first kind and with four to MaxConds of the long kind
TextInputs ==
  { Input("text", h, t, tl, <<>>, <<>>, <<>>) : h \in Heads, t \in Tables, tl \in Tails }
  \cup
  { Input("text", h, t, <<>>, w, << f >>, <<>>) :
      h \in Heads, t \in Tables, w \in WhereKeywords, f \in ShortFragments }
  \cup
  { Input("text", CanonicalHead, CanonicalTable, <<>>, CanonicalWhere, fs, <<>>) :
      fs \in SeqsUpTo(ShortFragments, 2, 2) \cup SeqsUpTo(Fragments, 3, 3)
               \cup SeqsUpTo(LongFragments, 4, MaxConds) }

\* ParsedQuery objects built by hand
DirectInputs ==
  { Input("direct", <<>>, CanonicalTable, <<>>, <<>>, <<>>, cs) :
      cs \in SeqsUpTo(ShortDirectConditions, 0, 2) \cup SeqsUpTo(DirectConditions, 3, 3)
               \cup SeqsUpTo(LongDirectConditions, 4, MaxConds) }

\* The text of a query
Render(in) ==
  in.head \o in.table \o in.tail \o in.where \o Join(in.frags, AndKeyword)

(***************************************************************************)
(* State                                                                   *)
(***************************************************************************)
VARIABLES
  input,        \* what the caller composed: a query text or a ParsedQuery
  query,        \* the text handed to SQLParser.parse
  parseStatus,  \* outcome of the last parse: "none", "ok" or the error raised
  parsed,       \* the ParsedQuery the caller holds
  optimized,    \* the OptimizedQuery returned by the last optimize
  report,       \* the result of the last explain / recommendation / score call
  scoreCalls    \* score_condition calls made by the last operation

vars ==
  << input, query, parseStatus, parsed, optimized, report, scoreCalls, scorer >>

NoParsed == [set |-> FALSE, query |-> ParsedQuery(<<>>, <<>>, <<>>)]

NoOptimized == [set |-> FALSE, result |-> [none |-> TRUE]]

NoReport == [op |-> "none", value |-> [none |-> TRUE]]

Init ==
  /\ input \in TextInputs \cup DirectInputs
  /\ query = IF input.family = "text" THEN Render(input) ELSE <<>>
  /\ parseStatus = "none"
  /\ parsed = IF input.family = "text" THEN NoParsed
              ELSE [set |-> TRUE,
                    query |-> ParsedQuery(input.table, input.conditions, <<>>)]
  /\ optimized = NoOptimized
  /\ report = NoReport
  /\ scoreCalls = 0
  /\ scorer = SelectivityScorer

\* parsed_query = parser.parse(query); a ValueError leaves parsed_query as it was
DoParse ==
  /\ LET r == Parse(query)
     IN  IF r.error = ""
         THEN /\ parseStatus' = "ok"
              /\ parsed' = [set |-> TRUE, query |-> r.query]
         ELSE /\ parseStatus' = r.error
              /\ UNCHANGED parsed
  /\ scoreCalls' = 0
  /\ UNCHANGED << input, query, optimized, report, scorer >>

\* optimized_query = optimizer.optimize(parsed_query)
DoOptimize ==
  /\ parsed.set
  /\ optimized' = [set |-> TRUE, result |-> OptimizeQuery(parsed.query)]
  /\ parsed' = [parsed EXCEPT !.query = ArgumentAfterOptimize(@)]
  /\ scoreCalls' = OptimizeScoreCalls(parsed.query)
  /\ UNCHANGED << input, query, parseStatus, report, scorer >>

\* explanation = optimizer.explain_optimization(parsed_query)
DoExplain ==
  /\ parsed.set
  /\ report' = [op |-> "explain", value |-> ExplainOptimization(parsed.query)]
  /\ scoreCalls' = ExplainScoreCalls(parsed.query)
  /\ UNCHANGED << input, query, parseStatus, parsed, optimized, scorer >>

\* scorer.get_optimization_recommendation(parsed_query.conditions)
DoRecommend ==
  /\ parsed.set
  /\ report' = [op |-> "recommend",
                value |-> GetOptimizationRecommendation(parsed.query.conditions)]
  /\ scoreCalls' = IF Len(parsed.query.conditions) <= 1 THEN 0
                   ELSE Len(parsed.query.conditions)
  /\ UNCHANGED << input, query, parseStatus, parsed, optimized, scorer >>

\* scorer.score_condition(parsed_query.conditions[i])
DoScore ==
  /\ parsed.set
  /\ \E i \in 1..Len(parsed.query.conditions) :
       report' = [op |-> "score", value |-> ScoreCondition(parsed.query.conditions[i])]
  /\ scoreCalls' = 1
  /\ UNCHANGED << input, query, parseStatus, parsed, optimized, scorer >>

Next == DoParse \/ DoOptimize \/ DoExplain \/ DoRecommend \/ DoScore

Spec == Init /\ [][Next]_vars

(***************************************************************************)
(* Properties                                                              *)
(***************************************************************************)
Score(c) == ScoreCondition(c).score

CountOf(seq, c) == Cardinality({i \in 1..Len(seq) : seq[i] = c})

OriginalConditions == optimized.result.original_query.conditions

OptimizedConditions == optimized.result.optimized_conditions

\* C1: the optimized_conditions returned by optimize are a permutation of the
\* input conditions as a multiset: same length, and every condition occurs
\* as often in the output as in the input.
C1_OptimizeIsPermutation ==
  (optimized.set /\ OriginalConditions # <<>>) =>
    /\ optimized.result.original_query = parsed.query
    /\ Len(OptimizedConditions) = Len(OriginalConditions)
    /\ \A c \in Range(OriginalConditions) \cup Range(OptimizedConditions) :
         CountOf(OptimizedConditions, c) = CountOf(OriginalConditions, c)

\* optimize has reordered a list that holds one condition twice
C1_Witness ==
  /\ optimized.set
  /\ OptimizedConditions # OriginalConditions
  /\ \E i, j \in 1..Len(OriginalConditions) :
       i < j /\ OriginalConditions[i] = OriginalConditions[j]

\* C2: the optimized_conditions are in non-decreasing order of selectivity
\* score: the score at position i is at most the score at position i+1.
C2_OptimizedScoresAscend ==
  (optimized.set /\ OriginalConditions # <<>>) =>
    \A i \in 1..(Len(OptimizedConditions) - 1) :
      Score(OptimizedConditions[i]) <= Score(OptimizedConditions[i + 1])

\* optimize was given a list in which a condition of higher score precedes
\* one of lower score
C2_Witness ==
  /\ optimized.set
  /\ \E i \in 1..(Len(OriginalConditions) - 1) :
       Score(OriginalConditions[i]) > Score(OriginalConditions[i + 1])
  /\ \E i \in 1..(Len(OptimizedConditions) - 1) :
       Score(OptimizedConditions[i]) < Score(OptimizedConditions[i + 1])

\* The conditions of seq whose score is sc, in the order of seq
WithScore(seq, sc) ==
  LET HasScore(c) == Score(c) = sc
  IN  SelectSeq(seq, HasScore)

\* C3: the reordering is stable.  optimize: for every score, the conditions
\* of that score are in the output in the order they have in the input.
\* get_optimization_recommendation: of two input conditions of equal score the
\* earlier one is listed before the later one.
C3_ReorderingIsStable ==
  /\ (optimized.set /\ OriginalConditions # <<>>) =>
       \A c \in Range(OriginalConditions) :
         WithScore(OptimizedConditions, Score(c)) = WithScore(OriginalConditions, Score(c))
  /\ (report.op = "recommend" /\ Len(parsed.query.conditions) >= 2) =>
       LET in == parsed.query.conditions
           entries == report.value.entries
       IN  \A i, j \in 1..Len(in) :
             (i < j /\ Score(in[i]) = Score(in[j])) =>
               \E p, q \in 1..Len(entries) :
                 /\ p < q
                 /\ entries[p].original_text = in[i].original_text
                 /\ entries[q].original_text = in[j].original_text

\* optimize and the recommendation have both ordered a list in which two
\* different conditions have the same score and a condition of lower score
\* follows them
C3_Witness ==
  /\ optimized.set
  /\ report.op = "recommend"
  /\ OriginalConditions = parsed.query.conditions
  /\ \E i, j, k \in 1..Len(OriginalConditions) :
       /\ i < j /\ j < k
       /\ OriginalConditions[i].original_text # OriginalConditions[j].original_text
       /\ Score(OriginalConditions[i]) = Score(OriginalConditions[j])
       /\ Score(OriginalConditions[k]) < Score(OriginalConditions[j])

SelectHeads == { h \in Heads : SelectSearch(h \o CanonicalTable) # <<>> }

\* The fragment parsed on its own
Single(f) == ParseSingleCondition(f)

\* parse was called on a text SELECT * FROM T WHERE c1 AND ... AND cN in
\* which every ci matches the condition grammar on its own
ValidQueryParsed ==
  /\ input.family = "text"
  /\ parseStatus # "none"
  /\ input.head \in SelectHeads
  /\ input.where \in WhereKeywords
  /\ input.frags # <<>>
  /\ \A i \in 1..Len(input.frags) : Single(input.frags[i]) # <<>>

\* C4: parsing SELECT * FROM T WHERE c1 AND ... AND cN, every ci matching the
\* condition grammar on its own and T any identifier, succeeds with table_name
\* T and exactly the N conditions parsed from c1 .. cN, in source order.
C4_ValidQueryParses ==
  ValidQueryParsed =>
    /\ parseStatus = "ok"
    /\ parsed.set
    /\ parsed.query.table_name = input.table
    /\ Len(parsed.query.conditions) = Len(input.frags)
    /\ \A i \in 1..Len(input.frags) :
         parsed.query.conditions[i] = Single(input.frags[i])[1]

\* parse was called on a text with SELECT * FROM T in which WHERE does not
\* occur as a separate word followed by a clause
NoWhereKeywordParsed ==
  /\ input.family = "text"
  /\ parseStatus # "none"
  /\ input.head \in SelectHeads
  /\ input.where = <<>>

\* C5: an input with a recognizable SELECT * FROM <identifier> in which WHERE
\* does not occur as a keyword fails with MissingWhere, and no ParsedQuery is
\* returned.
C5_NoWhereFailsMissingWhere ==
  NoWhereKeywordParsed => (parseStatus = "MissingWhere" /\ ~parsed.set)

\* parse was called on a text in which SELECT * FROM <identifier> does not
\* occur
NoSelectParsed ==
  /\ parseStatus # "none"
  /\ input.family = "text" => input.head \notin SelectHeads

\* C6: an input in which the pattern SELECT * FROM <identifier> does not
\* occur fails with InvalidSelect, with or without a WHERE clause, and no
\* ParsedQuery is returned.
C6_NoSelectFailsInvalidSelect ==
  NoSelectParsed =>
    /\ parseStatus = "InvalidSelect"
    /\ input.family = "text" => ~parsed.set

\* parse has failed on a text without the select pattern that has a WHERE
\* clause with a well-formed condition
C6_Witness ==
  /\ NoSelectParsed
  /\ input.family = "text"
  /\ input.where \in WhereKeywords
  /\ Single(input.frags[1]) # <<>>
  /\ parseStatus = "InvalidSelect"

\* C7: optimize on an empty condition list returns no optimized conditions,
\* the two-step plan SCAN (naming the table), RETURN and the summary
\* 'No WHERE conditions - full table scan', and calls score_condition never.
C7_EmptyConditionsFullScan ==
  (optimized.set /\ OriginalConditions = <<>>) =>
    /\ OptimizedConditions = <<>>
    /\ Len(optimized.result.execution_plan) = 2
    /\ optimized.result.execution_plan[1].step = 1
    /\ optimized.result.execution_plan[1].operation = "SCAN"
    /\ optimized.result.execution_plan[1].description =
         [text |-> "Scan table ", arg |-> optimized.result.original_query.table_name]
    /\ optimized.result.execution_plan[2].step = 2
    /\ optimized.result.execution_plan[2].operation = "RETURN"
    /\ optimized.result.optimization_summary.text = "No WHERE conditions - full table scan"
    /\ scoreCalls = 0

\* optimize has run on a ParsedQuery without conditions
C7_Witness ==
  /\ optimized.set
  /\ OriginalConditions = <<>>
  /\ optimized.result.original_query.table_name = CanonicalTable

\* C8: for N >= 1 conditions the plan has N+1 steps: step k is FILTER number k
\* with the fields of the k-th optimized condition and the description
\* 'Apply filter: <original_text>'; the last is RETURN number N+1 with the
\* description 'Return filtered results'; there is no SCAN step.
C8_PlanStructure ==
  (optimized.set /\ OriginalConditions # <<>>) =>
    LET plan == optimized.result.execution_plan
        N == Len(OriginalConditions)
    IN  /\ Len(plan) = N + 1
        /\ \A k \in 1..N :
             /\ plan[k].step = k
             /\ plan[k].operation = "FILTER"
             /\ plan[k].column = OptimizedConditions[k].column
             /\ plan[k].operator = OptimizedConditions[k].operator
             /\ plan[k].value = OptimizedConditions[k].value
             /\ plan[k].condition = OptimizedConditions[k].original_text
             /\ plan[k].description =
                  [text |-> "Apply filter: ", arg |-> OptimizedConditions[k].original_text]
        /\ plan[N + 1].step = N + 1
        /\ plan[N + 1].operation = "RETURN"
        /\ plan[N + 1].description = [text |-> "Return filtered results", arg |-> <<>>]
        /\ \A k \in 1..(N + 1) : plan[k].operation # "SCAN"

\* optimize has built the plan of a reordered list of three or more conditions
C8_Witness ==
  /\ optimized.set
  /\ Len(OriginalConditions) >= 3
  /\ OptimizedConditions # OriginalConditions
  /\ Len(optimized.result.execution_plan) = Len(OriginalConditions) + 1

\* C9: with one condition the summary is the 'no optimization needed'
\* message; with two or more it is 'conditions already in optimal order'
\* exactly when the optimized list equals the original list position by
\* position (== of the Condition fields; for parsed conditions, identity of
\* the fields), and otherwise 'Query optimization applied' with the number of
\* conditions and the original and optimized listings of original texts.
C9_SummaryChoice ==
  (optimized.set /\ OriginalConditions # <<>>) =>
    LET summary == optimized.result.optimization_summary
        N == Len(OriginalConditions)
        same == ConditionsEq(OptimizedConditions, OriginalConditions)
    IN  /\ N = 1 =>
             summary.text = "No optimization needed - single condition or no conditions"
        /\ N >= 2 =>
             /\ (summary.text = "No optimization needed - conditions already in optimal order")
                  <=> same
             /\ ~same =>
                  /\ summary.text = "Query optimization applied:"
                  /\ summary.count = N
                  /\ summary.original = OriginalTexts(OriginalConditions)
                  /\ summary.optimized = OriginalTexts(OptimizedConditions)
             /\ input.family = "text" =>
                  (same <=> OptimizedConditions = OriginalConditions)

\* optimize has written the summary of a reordered list
C9_Witness ==
  /\ optimized.set
  /\ Len(OriginalConditions) >= 2
  /\ optimized.result.optimization_summary.text = "Query optimization applied:"
  /\ optimized.result.optimization_summary.count = Len(OriginalConditions)

\* The value modifier of the table entry whose literal equals the string form
\* of the value in some letter case, 1.0 when there is none
CommonValueModifier(value) ==
  IF \E i \in 1..Len(value_modifiers) :
       PyLower(value_modifiers[i][1]) = PyLower(PyStr(value))
  THEN value_modifiers[CHOOSE i \in 1..Len(value_modifiers) :
         PyLower(value_modifiers[i][1]) = PyLower(PyStr(value))][2]
  ELSE 10

\* C10: score_condition uses as value modifier the table entry of the value
\* in any letter case (US, USA, United States, active, enabled, true, 1 give
\* 0.3; 18 .. 50 give 0.4) and 1.0 for every other value.
C10_ValueModifierAnyCase ==
  report.op = "score" =>
    LET c == report.value.condition
    IN  /\ report.value.score =
             FloatProduct(DictGet(selectivity_rules, c.operator, 5),
                          DictGet(column_modifiers, PyLower(c.column), 3),
                          CommonValueModifier(c.value))
        /\ (CommonValueModifier(c.value) < 10) <=>
             (\E k \in 1..Len(report.value.reasoning) :
                report.value.reasoning[k].text = "value is common (less selective)")

\* The keys of a lookup table
Keys(d) == {d[i][1] : i \in 1..Len(d)}

\* The entry of a lookup table under a key it holds
Entry(d, key) == d[CHOOSE i \in 1..Len(d) : d[i][1] = key][2]

\* The three factors of a condition's score, in tenths
OperatorBase(c) ==
  IF c.operator \in Keys(selectivity_rules)
  THEN Entry(selectivity_rules, c.operator) ELSE 5

ColumnModifier(c) ==
  IF PyLower(c.column) \in Keys(column_modifiers)
  THEN Entry(column_modifiers, PyLower(c.column)) ELSE 3

ValueModifier(c) ==
  IF PyLower(PyStr(c.value)) \in Keys(value_modifiers)
  THEN Entry(value_modifiers, PyLower(PyStr(c.value))) ELSE 10

\* C11: score_condition returns a score for every condition, equal to
\* operator_base * column_modifier * value_modifier with 0.5, 0.3 and 1.0 for
\* an operator, a lower-cased column and a value missing from the tables;
\* each factor lies in (0, 1], so the score is strictly positive and at most
\* 0.7.
C11_ScoreIsProductOfFactors ==
  report.op = "score" =>
    LET c == report.value.condition
    IN  /\ c \in Range(parsed.query.conditions)
        /\ report.value.score =
             FloatProduct(OperatorBase(c), ColumnModifier(c), ValueModifier(c))
        /\ {OperatorBase(c), ColumnModifier(c), ValueModifier(c)} \subseteq 1..10
        /\ report.value.score > 0
        /\ report.value.score <= FloatProduct(7, 10, 10)

\* score_condition has scored a condition whose operator, column and value
\* are all missing from the tables
C11_Witness ==
  /\ report.op = "score"
  /\ report.value.condition.operator \notin Keys(selectivity_rules)
  /\ PyLower(report.value.condition.column) \notin Keys(column_modifiers)
  /\ PyLower(PyStr(report.value.condition.value)) \notin Keys(value_modifiers)
  /\ report.value.score = FloatProduct(5, 3, 10)

\* The conditions of the ParsedQuery that parse returned
ParsedByParse == input.family = "text" /\ parseStatus = "ok"

\* C12: for every Condition c produced by parse, parsing c.original_text again
\* as a single condition yields a Condition with the same column, operator,
\* value and original_text as c.
C12_OriginalTextRoundTrips ==
  ParsedByParse =>
    \A i \in 1..Len(parsed.query.conditions) :
      LET c == parsed.query.conditions[i]
          again == ParseSingleCondition(c.original_text)
      IN  /\ Len(again) = 1
          /\ again[1].column = c.column
          /\ again[1].operator = c.operator
          /\ again[1].value = c.value
          /\ again[1].original_text = c.original_text

\* parse has returned a quoted number kept as a string together with a second
\* condition
C12_Witness ==
  /\ ParsedByParse
  /\ Len(parsed.query.conditions) >= 2
  /\ \E i \in 1..Len(parsed.query.conditions) :
       /\ parsed.query.conditions[i].value.kind = "str"
       /\ IsDigitRun(parsed.query.conditions[i].value.repr)

\* C13: every successful parse returns a ParsedQuery whose condition list is
\* non-empty; no input parses successfully into zero conditions.
C13_ParsedConditionsNonEmpty ==
  ParsedByParse => parsed.query.conditions # <<>>

\* The fragments of the captured WHERE text, and those of them that have the
\* shape of a condition
CapturedParts == SplitAnd(WhereSearch(Strip(query)))

MatchingParts ==
  {i \in 1..Len(CapturedParts) : MatchCondition(Strip(CapturedParts[i])).matched}

\* C13 (amended): a successful parse returns one Condition for each fragment
\* of the captured WHERE text that has the shape of a condition; the list is
\* empty exactly when no fragment has it.
C13_ConditionsAreMatchingParts ==
  ParsedByParse =>
    /\ Len(parsed.query.conditions) = Cardinality(MatchingParts)
    /\ (parsed.query.conditions = <<>>) <=> (MatchingParts = {})
    /\ (input.table = CanonicalTable /\ input.where # <<>>) =>
         CapturedParts = input.frags

\* parse has succeeded on a query with the keyword WHERE and two fragments
\* and returned no condition
C13_Witness ==
  /\ ParsedByParse
  /\ input.head = CanonicalHead
  /\ input.table = CanonicalTable
  /\ input.where = CanonicalWhere
  /\ Len(input.frags) = 2
  /\ MatchingParts = {}
  /\ parsed.query.conditions = <<>>

RangeOperators == { <<">">>, <<">", "=">>, <<"<">>, <<"<", "=">> }

IsEquality(c) == c.operator = <<"=">>

IsRange(c) == c.operator \in RangeOperators

\* C14: in the optimized_conditions returned by optimize every condition with
\* operator = comes before every condition with a range operator, whatever
\* their columns and values.
C14_EqualityBeforeRange ==
  optimized.set =>
    \A i, j \in 1..Len(OptimizedConditions) :
      (IsEquality(OptimizedConditions[i]) /\ IsRange(OptimizedConditions[j]))
        => i < j

\* column_modifier * value_modifier of a condition, in hundredths
Modifiers(c) == ColumnModifier(c) * ValueModifier(c)

\* C14 (amended): a condition with operator = comes before a condition with a
\* range operator when its column modifier times its value modifier is less
\* than three times that of the range condition (0.1 against 0.3 as base),
\* and after it when that product is greater.
C14_EqualityBeforeRangeByModifiers ==
  optimized.set =>
    \A i, j \in 1..Len(OptimizedConditions) :
      LET eq == OptimizedConditions[i]
          rng == OptimizedConditions[j]
      IN  (IsEquality(eq) /\ IsRange(rng)) =>
            /\ (Modifiers(eq) < 3 * Modifiers(rng)) => i < j
            /\ (Modifiers(eq) > 3 * Modifiers(rng)) => j < i

\* optimize has moved an equality condition in front of a range condition
\* that came first in the input
C14_Witness ==
  /\ optimized.set
  /\ \E i, j \in 1..Len(OptimizedConditions) :
       /\ i < j
       /\ IsEquality(OptimizedConditions[i])
       /\ IsRange(OptimizedConditions[j])
       /\ Modifiers(OptimizedConditions[i]) < 3 * Modifiers(OptimizedConditions[j])
       /\ \E k, l \in 1..Len(OriginalConditions) :
             /\ k < l
             /\ OriginalConditions[k] = OptimizedConditions[j]
             /\ OriginalConditions[l] = OptimizedConditions[i]

AgeOver25 == <<"a","g","e"," ",">"," ","2","5">>

CountryIsUS == <<"c","o","u","n","t","r","y"," ","="," ","'","U","S","'">>

\* The query  SELECT * FROM users WHERE age > 25 AND country = 'US'
ReorderingScenario ==
  Input("text", CanonicalHead, CanonicalTable, <<>>, CanonicalWhere,
        << AgeOver25, CountryIsUS >>, <<>>)

\* C15: parsing and optimizing SELECT * FROM users WHERE age > 25 AND
\* country = 'US' puts country = 'US' before age > 25, the score of
\* country = 'US' being 0.1 * 0.2 * 0.3; the plan has the 3 steps FILTER,
\* FILTER, RETURN and the summary reports 2 reordered conditions.
C15_ReorderingScenario ==
  (input = ReorderingScenario /\ parseStatus = "ok" /\ optimized.set) =>
    /\ OriginalTexts(OptimizedConditions) = << CountryIsUS, AgeOver25 >>
    /\ Score(OptimizedConditions[1]) = FloatProduct(1, 2, 3)
    /\ Score(OptimizedConditions[1]) < Score(OptimizedConditions[2])
    /\ Len(optimized.result.execution_plan) = 3
    /\ optimized.result.execution_plan[1].operation = "FILTER"
    /\ optimized.result.execution_plan[2].operation = "FILTER"
    /\ optimized.result.execution_plan[3].operation = "RETURN"
    /\ optimized.result.optimization_summary.text = "Query optimization applied:"
    /\ optimized.result.optimization_summary.count = 2

\* The position of the quote that opens the value of a fragment, 0 when the
\* fragment has no quote; the position of the next quote of the same kind
OpeningQuote(f) ==
  IF \A k \in 1..Len(f) : ~IsQuote(f[k]) THEN 0
  ELSE CHOOSE k \in 1..Len(f) :
         IsQuote(f[k]) /\ \A m \in 1..(k - 1) : ~IsQuote(f[m])

ClosingQuote(f) ==
  LET o == OpeningQuote(f)
  IN  IF o = 0 \/ \A k \in (o + 1)..Len(f) : f[k] # f[o] THEN 0
      ELSE CHOOSE k \in (o + 1)..Len(f) :
             f[k] = f[o] /\ \A m \in (o + 1)..(k - 1) : f[m] # f[o]

\* A fragment  column operator 'value'  with a symbol operator
IsQuotedComparison(f) ==
  /\ ClosingQuote(f) # 0
  /\ \E k \in 1..(OpeningQuote(f) - 1) : IsOpChar(f[k])

\* C16: a value opened by a quote is the whole run of characters up to the
\* closing quote of the same kind, whitespace included, kept as a string:
\* name = 'John Smith' yields column name, operator = and the string value
\* John Smith.
C16_QuotedValueKeepsWhitespace ==
  (ParsedByParse /\ input.table = CanonicalTable /\ input.where # <<>>) =>
    \A i \in 1..Len(input.frags) :
      LET f == input.frags[i]
      IN  IsQuotedComparison(f) =>
            \E k \in 1..Len(parsed.query.conditions) :
              /\ parsed.query.conditions[k].column = SubSeq(f, 1, RunEnd(f, 1, WordChars) - 1)
              /\ parsed.query.conditions[k].value =
                   StrValue(SubSeq(f, OpeningQuote(f) + 1, ClosingQuote(f) - 1))

\* The whole fragment is an identifier, a run of the characters = < > ! and
\* an optionally quoted value, with optional whitespace around the operator
HasWholeShape(f) ==
  LET w == RunEnd(f, 1, WordChars)
      a == RunEnd(f, w, SpaceChars)
      o == RunEnd(f, a, OpChars)
      t == RunEnd(f, o, SpaceChars)
  IN  /\ w > 1
      /\ o > a
      /\ t <= Len(f)
      /\ IF IsQuote(f[t])
         THEN LET v == RunEnd(f, t + 1, ValueChars)
              IN  v > t + 1 /\ v = Len(f) /\ f[v] = f[t]
         ELSE RunEnd(f, t, ValueChars) = Len(f) + 1

\* C17: a fragment of the WHERE clause becomes a Condition only if the whole
\* fragment has the shape identifier, operator, optionally quoted value; the
\* other fragments (further text after the value, a word operator such as
\* LIKE) are dropped without an error and the rest is kept in source order.
C17_OnlyWholeShapeFragmentsKept ==
  (input.family = "text" /\ parseStatus # "none"
     /\ input.head = CanonicalHead /\ input.table = CanonicalTable
     /\ input.where = CanonicalWhere) =>
    /\ parseStatus = "ok"
    /\ OriginalTexts(parsed.query.conditions) = SelectSeq(input.frags, HasWholeShape)

\* C18: optimize, explain_optimization, score_condition and
\* get_optimization_recommendation leave the ParsedQuery they are given (its
\* conditions and their order, its table name and query text) and the
\* scorer's three tables as they were; so a later optimize of an equal
\* ParsedQuery returns the OptimizedQuery (order, plan, summary) of the
\* earlier one.
C18_CallsLeaveArgumentsAlone ==
  [][ /\ parsed.set => parsed' = parsed
      /\ scorer' = scorer /\ scorer = SelectivityScorer
      /\ optimized.set => optimized' = optimized ]_vars

\* optimize has reordered the conditions of a ParsedQuery that was scored or
\* explained as well, and the ParsedQuery still has the order it was given in
C18_Witness ==
  /\ optimized.set
  /\ report.op # "none"
  /\ Len(OriginalConditions) >= 2
  /\ OptimizedConditions # OriginalConditions
  /\ parsed.query = optimized.result.original_query
  /\ parsed.query.conditions # ApplyOptimizationRules(parsed.query.conditions)
  /\ scorer = SelectivityScorer

====
